---- MODULE Spec2Model ----
(***************************************************************************)
(* CatBoost + ICA band reduction for hyperspectral cubes                   *)
(* (src/src/4._catboost_ICA_GPU.py): the functions ICA and                 *)
(* model_train_test, visualize_classification_map and the module-level run *)
(* driver over the four datasets.                                          *)
(*                                                                         *)
(* A numpy array is a record [kind, shape, data]: shape is the tuple of    *)
(* extents, data the C-contiguous buffer (a 1-based sequence), kind a tag  *)
(* that says what the cells are.  Cells of the cube and of label vectors   *)
(* are integers.  The numeric library transforms cannot be computed over   *)
(* the reals here, so their cells are terms: <<"z", x>> is the             *)
(* standardised value of x, <<"s", j, row>> is independent component j of  *)
(* the standardised row.  The classifier is a black box: a prediction is   *)
(* any vector over the classes the classifier was fitted on.               *)
(***************************************************************************)
EXTENDS Integers, Sequences, FiniteSets, TLC

VARIABLES
    pc,                      \* position of the single control flow
    ds,                      \* dataset the driver is working on (0: ICA called directly)
    loaded,                  \* module globals pavia_u, pavia_u_gt, ... (lines 156-166)
    results,                 \* module globals acc_*, training_time_*, *_map_* (172-184)
    images,                  \* files written by plt.savefig
    summary,                 \* summary lines printed at lines 191-194
    hsi_image, gt, n_components,            \* arguments of ICA
    hsi_image_reshaped, hsi_image_scaled, hsi_image_limited,   \* locals of ICA
    mtt_hsi_image_reshaped,                 \* hsi_image_reshaped of model_train_test
    train_idx, test_idx,                    \* the pixel indices train_test_split drew, in its order
    X_train, X_test, y_train, y_test,
    cbc, y_pred, acc, total_time, y_pred_full,
    classification_map, ground_truth_map,
    ret,                     \* the tuple ICA returned
    err,                     \* the exception that ended the run, if any
    clf_calls,               \* calls made on the classifier, with their arguments
    log                      \* every operation performed, in order

vars == <<pc, ds, loaded, results, images, summary, hsi_image, gt, n_components,
          hsi_image_reshaped, hsi_image_scaled, hsi_image_limited,
          mtt_hsi_image_reshaped, train_idx, test_idx, X_train, X_test, y_train,
          y_test, cbc, y_pred, acc, total_time, y_pred_full, classification_map,
          ground_truth_map, ret, err, clf_calls, log>>

----------------------------------------------------------------------------
(* Bounds of the model and constants of the program *)

MaxLabel == 1
MaxBands == 2
MaxCells == 12
DefaultNComponents == 10
TestNum == 1
TestDen == 5

----------------------------------------------------------------------------
(* numpy arrays *)

Array(kind, shape, data) ==
    [kind |-> kind, shape |-> shape, data |-> data]

None ==
    Array("none", <<>>, <<>>)

\* a.reshape(shape) with the default order='C' reads the same buffer in
\* row-major order.  The column-major variant is what order='F' would do on
\* a two-dimensional target.
ReshapeF(a, shape) ==
    IF Len(shape) = 2
    THEN Array(a.kind, shape,
               [k \in 1..Len(a.data) |->
                   a.data[((k - 1) % shape[2]) * shape[1] + ((k - 1) \div shape[2]) + 1]])
    ELSE Array(a.kind, shape, a.data)

Reshape(a, shape) ==
    Array(a.kind, shape, a.data)

\* a.reshape(-1)
Ravel(a) ==
    Reshape(a, <<Len(a.data)>>)

\* a[i], a[r, c], a[r, c, b] with 0-based indices
At1(a, i) ==
    a.data[i + 1]

At2(a, r, c) ==
    a.data[r * a.shape[2] + c + 1]

At3(a, r, c, b) ==
    a.data[(r * a.shape[2] + c) * a.shape[3] + b + 1]

\* row i of a two-dimensional array, as a sequence
RowOf(a, i) ==
    [b \in 1..a.shape[2] |-> At2(a, i, b - 1)]

RECURSIVE Concat(_)
Concat(ss) ==
    IF ss = <<>> THEN <<>> ELSE Head(ss) \o Concat(Tail(ss))

\* a[idx] for a sequence idx of 0-based row indices
TakeRows(a, idx) ==
    Array(a.kind, <<Len(idx), a.shape[2]>>,
          Concat([k \in 1..Len(idx) |-> RowOf(a, idx[k])]))

TakeElems(a, idx) ==
    Array(a.kind, <<Len(idx)>>, [k \in 1..Len(idx) |-> At1(a, idx[k])])

\* np.unique
Unique(a) ==
    {a.data[k] : k \in 1..Len(a.data)}

\* the elements of a sequence, as a set
Range(s) ==
    {s[k] : k \in 1..Len(s)}

----------------------------------------------------------------------------
(* Library calls the pipeline makes *)

\* StandardScaler().fit_transform(X): every cell rescaled with its column's
\* mean and deviation; the input is copied (copy=True), not changed.
ScalerFitTransform(X) ==
    Array("scaled", X.shape, [k \in 1..Len(X.data) |-> <<"z", X.data[k]>>])

Min(a, b) ==
    IF a <= b THEN a ELSE b

\* FastICA(n_components, random_state=42).fit_transform(X): row i of the
\* result holds the independent components of row i of X.  A component
\* count above min(n_samples, n_features) is lowered to it with a warning.
ICAFitTransform(X, nc) ==
    LET k == Min(nc, Min(X.shape[1], X.shape[2]))
    IN Array("ica", <<X.shape[1], k>>,
             Concat([i \in 1..X.shape[1] |->
                        [j \in 1..k |-> <<"s", j, RowOf(X, i - 1)>>]]))

\* accuracy_score with normalize=False returns the count of matches.
AccuracyCount(y_true, y_hat) ==
    [num |-> Cardinality({k \in 1..Len(y_true.data) : y_true.data[k] = y_hat.data[k]}),
     den |-> 1]

\* accuracy_score(y_true, y_pred): matches divided by the number of samples,
\* kept as the fraction num/den.
AccuracyScore(y_true, y_hat) ==
    [num |-> Cardinality({k \in 1..Len(y_true.data) : y_true.data[k] = y_hat.data[k]}),
     den |-> Len(y_true.data)]

NoAcc ==
    [num |-> 0, den |-> 0]

\* cbc.predict(X) for a MultiClass model: one label per row, shape (n, 1),
\* each label one of the classes seen in fit.
Predictions(model, X) ==
    {Array("pred", <<X.shape[1], 1>>, p) : p \in [1..X.shape[1] -> model.classes]}

NoModel ==
    [fitted |-> FALSE, classes |-> {}, n_features |-> 0]

----------------------------------------------------------------------------
(* sklearn.model_selection.train_test_split(..., stratify=y, test_size=0.2) *)

\* _validate_shuffle_split: n_test = ceil(test_size * n), n_train = n - n_test;
\* test_size = 0.2 is the fraction TestNum/TestDen.
NTest(n) ==
    (n * TestNum + TestDen - 1) \div TestDen

NTrain(n) ==
    n - NTest(n)

ClassIdx(y, c) ==
    {i \in 0..(Len(y.data) - 1) : At1(y, i) = c}

ClassCount(y, c) ==
    Cardinality(ClassIdx(y, c))

RECURSIVE SumOver(_, _)
SumOver(S, f) ==
    IF S = {} THEN 0
    ELSE LET x == CHOOSE x \in S : TRUE
         IN f[x] + SumOver(S \ {x}, f)

\* _approximate_mode(class_counts, n_draws): the floor of each class's
\* proportional share, the draws left over going to the classes with the
\* largest remainders (ties broken by the seeded generator).
ApproximateMode(y, n_draws) ==
    LET n == Len(y.data)
        cl == Unique(y)
        fl == [c \in cl |-> (ClassCount(y, c) * n_draws) \div n]
        rm == [c \in cl |-> (ClassCount(y, c) * n_draws) % n]
        need == n_draws - SumOver(cl, fl)
    IN {[c \in cl |-> fl[c] + (IF c \in S THEN 1 ELSE 0)] :
           S \in {T \in SUBSET cl :
                     /\ Cardinality(T) = need
                     /\ \A a \in T : \A b \in cl \ T : rm[a] >= rm[b]}}

\* The train partitions StratifiedShuffleSplit can draw: per class, as many
\* indices as _approximate_mode allots.
TrainSets(y) ==
    LET n == Len(y.data)
    IN {T \in SUBSET (0..(n - 1)) :
           \E alloc \in ApproximateMode(y, NTrain(n)) :
               \A c \in Unique(y) : Cardinality(T \cap ClassIdx(y, c)) = alloc[c]}

\* A test partition that takes every index, train ones included.
TestSetAll(n, train) ==
    0..(n - 1)

\* The test partition: the second _approximate_mode draws n_test from what
\* the train partition left, which is all of it (n_train + n_test = n).
TestSet(n, train) ==
    (0..(n - 1)) \ train

\* rng.permutation(train), rng.permutation(test): the indices of a partition
\* come back in the order the seeded generator shuffled them into, which is
\* any order; the caller keeps it.
RECURSIVE Orders(_)
Orders(S) ==
    IF S = {} THEN {<<>>}
    ELSE UNION {{<<x>> \o p : p \in Orders(S \ {x})} : x \in S}

Undersized(y) ==
    {c \in Unique(y) : ClassCount(y, c) < 2}

NoError ==
    [type |-> "none", at |-> "none", reason |-> "none", classes |-> {}]

Error(type, at, reason, classes) ==
    [type |-> type, at |-> at, reason |-> reason, classes |-> classes]

\* The ValueError train_test_split raises for y, in the order of its checks;
\* empty when the split goes through.  `classes` are the class labels the
\* message names: the empty-train-set and size messages name none, the
\* least-populated-class message reports the size of that class and, in
\* recent releases of the library only, the classes concerned.
SplitErrors(y) ==
    LET n == Len(y.data)
        k == Cardinality(Unique(y))
    IN IF NTrain(n) = 0
       THEN {Error("ValueError", "split", "empty_train_set", {})}
       ELSE IF Undersized(y) # {}
       THEN {Error("ValueError", "split", "least_populated_class", {}),
             Error("ValueError", "split", "least_populated_class", Undersized(y))}
       ELSE IF NTrain(n) < k
       THEN {Error("ValueError", "split", "train_size_lt_classes", {})}
       ELSE IF NTest(n) < k
       THEN {Error("ValueError", "split", "test_size_lt_classes", {})}
       ELSE {}

----------------------------------------------------------------------------
(* Inputs *)

Names ==
    <<"Pavia University", "Pavia Centre", "Salinas", "Indian Pines">>

Datasets ==
    1..Len(Names)

\* A cube of shape (h, w, b) whose cells are all different, so that any
\* change of element order shows.
Cube(h, w, b) ==
    Array("cube", <<h, w, b>>, [k \in 1..(h * w * b) |-> k])

LabelGrids(h, w) ==
    {Array("labels", <<h, w>>, d) : d \in [1..(h * w) -> 0..MaxLabel]}

\* Spatial extents (H, W) of the cubes ICA is called on directly
Shapes ==
    {<<1, 1>>, <<1, 2>>, <<2, 2>>, <<2, 3>>}

\* Label grids of the 2x3 scene, the smallest on which a two-class split
\* goes through: three pixels per class, two and four, one class only, and
\* a class of a single pixel.
SixPixelGrids ==
    {Array("labels", <<2, 3>>, d) :
        d \in {<<0, 1, 0, 1, 0, 1>>, <<0, 0, 1, 1, 1, 1>>,
               <<1, 1, 1, 1, 1, 1>>, <<0, 1, 1, 1, 1, 1>>}}

\* The label grids ICA is called with on a cube of extents (h, w): every
\* grid for the scenes of up to four pixels, SixPixelGrids for the 2x3 one.
InputGrids(h, w) ==
    IF <<h, w>> = <<2, 3>> THEN SixPixelGrids ELSE LabelGrids(h, w)

\* What the loader can hand the driver for one dataset: a two-pixel scene
\* with enough bands for the default component count or one band short of
\* it, labelled with one class or with two classes of one pixel each.
DriverCubes ==
    {Cube(1, 2, b) : b \in {DefaultNComponents - 1, DefaultNComponents}}

DriverGrids ==
    {Array("labels", <<1, 2>>, d) : d \in {<<1, 1>>, <<1, 2>>}}

NotLoaded ==
    [cube |-> None, gt |-> None]

----------------------------------------------------------------------------
(* Control flow *)

Event(k, op) ==
    [ds |-> k, op |-> op]

Events(k, ops) ==
    [i \in 1..Len(ops) |-> Event(k, ops[i])]

\* An exception handled per dataset: the driver would go on with the next one.
AfterRaiseIsolated(k) ==
    IF k \in Datasets /\ k < Len(Names)
    THEN [pc |-> "call", ds |-> k + 1]
    ELSE [pc |-> "aborted", ds |-> k]

\* No try/except anywhere: an exception raised while working on dataset k
\* unwinds through ICA and the module level and ends the process.
AfterRaise(k) ==
    [pc |-> "aborted", ds |-> k]

\* A driver that loads each dataset right before running it.
AfterLoadInterleaved(k) ==
    [pc |-> "call", ds |-> k]

\* Lines 156-166 load all four datasets before line 172 runs the first: the
\* statement after a dataset's label grid is bound reads the next cube.
AfterLoad(k) ==
    IF k < Len(Names)
    THEN [pc |-> "load_cube", ds |-> k + 1]
    ELSE [pc |-> "call", ds |-> 1]

\* A driver that prints a dataset's summary line as soon as it is rendered.
AfterVisualizeEager(k) ==
    [pc |-> "summary", ds |-> k]

\* Lines 172-185: the next dataset's ICA call follows the rendering; the
\* summary prints (191-194) follow the last rendering.
AfterVisualize(k) ==
    IF k < Len(Names)
    THEN [pc |-> "call", ds |-> k + 1]
    ELSE [pc |-> "summary", ds |-> k]

\* The tail of model_train_test with the report printed before the map is built.
EvaluateOpsReportFirst ==
    <<"report", "reshape_pred", "reshape_gt", "confusion">>

\* Lines 98-112, after the full prediction: the two reshapes, then the
\* classification report, then the confusion matrix.
EvaluateOps ==
    <<"reshape_pred", "reshape_gt", "report", "confusion">>

FitCall(Xtr, ytr, Xev, yev) ==
    [op |-> "fit", X |-> Xtr, y |-> ytr, eval_X |-> Xev, eval_y |-> yev]

PredictCall(X) ==
    [op |-> "predict", X |-> X, y |-> None, eval_X |-> None, eval_y |-> None]

\* The locals of ICA and model_train_test before the call has run
FreshFrame ==
    /\ hsi_image_reshaped' = None
    /\ hsi_image_scaled' = None
    /\ hsi_image_limited' = None
    /\ mtt_hsi_image_reshaped' = None
    /\ train_idx' = <<>>
    /\ test_idx' = <<>>
    /\ X_train' = None
    /\ X_test' = None
    /\ y_train' = None
    /\ y_test' = None
    /\ cbc' = NoModel
    /\ y_pred' = None
    /\ acc' = NoAcc
    /\ total_time' = "unset"
    /\ y_pred_full' = None
    /\ classification_map' = None
    /\ ground_truth_map' = None
    /\ ret' = <<>>
    /\ clf_calls' = <<>>

Raise(e) ==
    /\ err' = e
    /\ pc' = AfterRaise(ds).pc
    /\ ds' = AfterRaise(ds).ds

globals == <<loaded, results, images, summary>>
args == <<hsi_image, gt, n_components>>

----------------------------------------------------------------------------
(* ICA, lines 118-145 *)

\* Lines 123-129: flatten the cube, fit the standardizer on it and transform.
ICA_Standardize ==
    /\ pc = "ica_scale"
    /\ LET n_samples == hsi_image.shape[1] * hsi_image.shape[2]
           n_bands == hsi_image.shape[3]
           reshaped == Reshape(hsi_image, <<n_samples, n_bands>>)
       IN /\ hsi_image_reshaped' = reshaped
          /\ log' = log \o Events(ds, <<"reshape_cube", "standardize">>)
          /\ \/ /\ hsi_image_scaled' = ScalerFitTransform(reshaped)
                /\ pc' = "ica_reduce"
                /\ UNCHANGED <<ds, err>>
             \/ /\ Raise(Error("LibraryError", "standardize", "fit_transform", {}))
                /\ UNCHANGED hsi_image_scaled
    /\ UNCHANGED <<globals, args, hsi_image_limited, mtt_hsi_image_reshaped,
                   train_idx, test_idx, X_train, X_test, y_train, y_test, cbc,
                   y_pred, acc, total_time, y_pred_full, classification_map,
                   ground_truth_map, ret, clf_calls>>

\* Lines 131-139: the component-count check, then the ICA fit and transform.
ICA_Reduce ==
    /\ pc = "ica_reduce"
    /\ LET n_bands == hsi_image.shape[3]
       IN \/ /\ n_components > n_bands
             /\ log' = log \o Events(ds, <<"validate">>)
             /\ Raise(Error("ValueError", "validate", "n_components", {}))
             /\ UNCHANGED hsi_image_limited
          \/ /\ n_components <= n_bands
             /\ log' = log \o Events(ds, <<"validate", "reduce">>)
             /\ hsi_image_limited' = ICAFitTransform(hsi_image_scaled, n_components)
             /\ pc' = "mtt_split"
             /\ UNCHANGED <<ds, err>>
          \/ /\ n_components <= n_bands
             /\ log' = log \o Events(ds, <<"validate", "reduce">>)
             /\ Raise(Error("LibraryError", "reduce", "fit_transform", {}))
             /\ UNCHANGED hsi_image_limited
    /\ UNCHANGED <<globals, args, hsi_image_reshaped, hsi_image_scaled,
                   mtt_hsi_image_reshaped, train_idx, test_idx, X_train, X_test,
                   y_train, y_test, cbc, y_pred, acc, total_time, y_pred_full,
                   classification_map, ground_truth_map, ret, clf_calls>>

----------------------------------------------------------------------------
(* model_train_test, lines 47-115, called at line 142 *)

\* Lines 53-63: flatten the cube again, then the stratified split of the
\* reduced table and the flattened labels; the four parts are bound as the
\* split returns them, rows in the split's shuffled order.
MTT_Split ==
    /\ pc = "mtt_split"
    /\ LET n_samples == hsi_image.shape[1] * hsi_image.shape[2]
           n_bands == hsi_image.shape[3]
           y == Ravel(gt)
       IN /\ mtt_hsi_image_reshaped' = Reshape(hsi_image, <<n_samples, n_bands>>)
          /\ log' = log \o Events(ds, <<"reshape_cube", "split">>)
          /\ \/ /\ \E e \in SplitErrors(y) : Raise(e)
                /\ UNCHANGED <<train_idx, test_idx, X_train, X_test, y_train, y_test>>
             \/ /\ SplitErrors(y) = {}
                /\ \E train \in TrainSets(y) :
                      \E tr \in Orders(train) :
                         \E te \in Orders(TestSet(n_samples, train)) :
                            /\ train_idx' = tr
                            /\ test_idx' = te
                            /\ X_train' = TakeRows(hsi_image_limited, tr)
                            /\ X_test' = TakeRows(hsi_image_limited, te)
                            /\ y_train' = TakeElems(y, tr)
                            /\ y_test' = TakeElems(y, te)
                /\ pc' = "mtt_fit"
                /\ UNCHANGED <<ds, err>>
    /\ UNCHANGED <<globals, args, hsi_image_reshaped, hsi_image_scaled,
                   hsi_image_limited, cbc, y_pred, acc, total_time, y_pred_full,
                   classification_map, ground_truth_map, ret, clf_calls>>

\* Lines 66-82: construct the classifier and fit it on the train partition,
\* the test partition given as eval_set; the fit is timed.
MTT_Fit ==
    /\ pc = "mtt_fit"
    /\ log' = log \o Events(ds, <<"construct", "fit">>)
    /\ clf_calls' = Append(clf_calls, FitCall(X_train, y_train, X_test, y_test))
    /\ \/ /\ cbc' = [fitted |-> TRUE, classes |-> Unique(y_train),
                     n_features |-> X_train.shape[2]]
          /\ total_time' = "elapsed"
          /\ pc' = "mtt_test"
          /\ UNCHANGED <<ds, err>>
       \/ /\ Raise(Error("LibraryError", "fit", "fit", {}))
          /\ UNCHANGED <<cbc, total_time>>
    /\ UNCHANGED <<globals, args, hsi_image_reshaped, hsi_image_scaled,
                   hsi_image_limited, mtt_hsi_image_reshaped, train_idx, test_idx,
                   X_train, X_test, y_train, y_test, y_pred, acc, y_pred_full,
                   classification_map, ground_truth_map, ret>>

\* Lines 85-89: predict the test partition and score it.
MTT_Test ==
    /\ pc = "mtt_test"
    /\ clf_calls' = Append(clf_calls, PredictCall(X_test))
    /\ \/ /\ X_test.shape[2] >= cbc.n_features
          /\ \E p \in Predictions(cbc, X_test) :
                /\ y_pred' = p
                /\ acc' = AccuracyScore(y_test, p)
          /\ log' = log \o Events(ds, <<"predict_test", "accuracy">>)
          /\ pc' = "mtt_full"
          /\ UNCHANGED <<ds, err>>
       \/ /\ log' = log \o Events(ds, <<"predict_test">>)
          /\ Raise(Error("LibraryError", "predict_test", "predict", {}))
          /\ UNCHANGED <<y_pred, acc>>
    /\ UNCHANGED <<globals, args, hsi_image_reshaped, hsi_image_scaled,
                   hsi_image_limited, mtt_hsi_image_reshaped, train_idx, test_idx,
                   X_train, X_test, y_train, y_test, cbc, total_time, y_pred_full,
                   classification_map, ground_truth_map, ret>>

\* Lines 92-115 and 142-145: predict every pixel from hsi_image_reshaped,
\* reshape the predictions and the labels to (H, W), print the report and
\* the matrix, and return the tuple through ICA to the caller; at module
\* level it is bound to acc_*, training_time_*, *_map_* (172-184).  The
\* classifier takes a table with at least as many columns as it was fitted on.
MTT_Full ==
    /\ pc = "mtt_full"
    /\ clf_calls' = Append(clf_calls, PredictCall(mtt_hsi_image_reshaped))
    /\ \/ /\ mtt_hsi_image_reshaped.shape[2] >= cbc.n_features
          /\ \E p \in Predictions(cbc, mtt_hsi_image_reshaped) :
                /\ y_pred_full' = p
                /\ classification_map' =
                       Reshape(p, <<hsi_image.shape[1], hsi_image.shape[2]>>)
          /\ ground_truth_map' = Reshape(gt, <<hsi_image.shape[1], hsi_image.shape[2]>>)
          /\ ret' = <<acc, total_time, classification_map', ground_truth_map'>>
          /\ log' = log \o Events(ds, <<"predict_full">> \o EvaluateOps \o <<"return">>)
          /\ IF ds = 0
             THEN /\ pc' = "returned"
                  /\ UNCHANGED results
             ELSE /\ pc' = "visualize"
                  /\ results' = [results EXCEPT ![ds] = ret']
          /\ UNCHANGED <<ds, err>>
       \/ /\ log' = log \o Events(ds, <<"predict_full">>)
          /\ Raise(Error("LibraryError", "predict_full", "predict", {}))
          /\ UNCHANGED <<y_pred_full, classification_map, ground_truth_map, ret,
                         results>>
    /\ UNCHANGED <<loaded, images, summary, args, hsi_image_reshaped,
                   hsi_image_scaled, hsi_image_limited, mtt_hsi_image_reshaped,
                   train_idx, test_idx, X_train, X_test, y_train, y_test, cbc,
                   y_pred, acc, total_time>>

frame == <<hsi_image_reshaped, hsi_image_scaled, hsi_image_limited,
           mtt_hsi_image_reshaped, train_idx, test_idx, X_train, X_test, y_train,
           y_test, cbc, y_pred, acc, total_time, y_pred_full, classification_map,
           ground_truth_map, ret, clf_calls>>

----------------------------------------------------------------------------
(* The run driver, lines 155-194, and visualize_classification_map, 25-44 *)

\* Lines 156, 159, 162, 165: the cube of dataset k is read from its .mat
\* file and bound to its global; loadmat can raise, and so can the
\* subscript when the file lacks the key.
LoadCube ==
    /\ pc = "load_cube"
    /\ log' = log \o Events(ds, <<"load_cube">>)
    /\ \/ /\ \E c \in DriverCubes : loaded' = [loaded EXCEPT ![ds].cube = c]
          /\ pc' = "load_gt"
          /\ UNCHANGED <<ds, err>>
       \/ /\ Raise(Error("LibraryError", "load_cube", "loadmat", {}))
          /\ UNCHANGED loaded
       \/ /\ Raise(Error("KeyError", "load_cube", "subscript", {}))
          /\ UNCHANGED loaded
    /\ UNCHANGED <<results, images, summary, args, frame>>

\* Lines 157, 160, 163, 166: the label grid of dataset k, read likewise by
\* the next statement; when it raises the cube's global stays bound.
LoadGt ==
    /\ pc = "load_gt"
    /\ log' = log \o Events(ds, <<"load_gt">>)
    /\ \/ /\ \E g \in DriverGrids : loaded' = [loaded EXCEPT ![ds].gt = g]
          /\ pc' = AfterLoad(ds).pc
          /\ ds' = AfterLoad(ds).ds
          /\ UNCHANGED err
       \/ /\ Raise(Error("LibraryError", "load_gt", "loadmat", {}))
          /\ UNCHANGED loaded
       \/ /\ Raise(Error("KeyError", "load_gt", "subscript", {}))
          /\ UNCHANGED loaded
    /\ UNCHANGED <<results, images, summary, args, frame>>

\* Lines 172, 176, 180, 184: ICA(cube, gt) with the default n_components.
CallICA ==
    /\ pc = "call"
    /\ loaded[ds].cube.kind = "cube"
    /\ loaded[ds].gt.kind = "labels"
    /\ hsi_image' = loaded[ds].cube
    /\ gt' = loaded[ds].gt
    /\ n_components' = DefaultNComponents
    /\ FreshFrame
    /\ pc' = "ica_scale"
    /\ UNCHANGED <<ds, globals, err, log>>

\* Lines 173, 177, 181, 185 and 25-44: the two maps are drawn and the figure
\* is saved under the dataset's name.
Visualize ==
    /\ pc = "visualize"
    /\ log' = log \o Events(ds, <<"render">>)
    /\ \/ /\ images' = images \cup {Names[ds]}
          /\ pc' = AfterVisualize(ds).pc
          /\ ds' = AfterVisualize(ds).ds
          /\ UNCHANGED err
       \/ /\ Raise(Error("LibraryError", "render", "savefig", {}))
          /\ UNCHANGED images
    /\ UNCHANGED <<loaded, results, summary, args, frame>>

SummaryLine(k) ==
    [name |-> Names[k], training_time |-> results[k][2], accuracy |-> results[k][1]]

\* Lines 191-194: one line per dataset, in the order of Names.
PrintSummary ==
    /\ pc = "summary"
    /\ LET k == Len(summary) + 1
       IN /\ k \in Datasets
          /\ Len(results[k]) = 4
          /\ summary' = Append(summary, SummaryLine(k))
          /\ log' = log \o Events(k, <<"print_summary">>)
          /\ pc' = IF k = Len(Names) THEN "done" ELSE "summary"
    /\ UNCHANGED <<ds, loaded, results, images, args, frame, err>>

----------------------------------------------------------------------------
(* Specifications *)

\* The program run from the top: nothing loaded, nothing called.
Init ==
    /\ pc = "load_cube"
    /\ ds = 1
    /\ loaded = [k \in Datasets |-> NotLoaded]
    /\ results = [k \in Datasets |-> <<>>]
    /\ images = {}
    /\ summary = <<>>
    /\ hsi_image = None
    /\ gt = None
    /\ n_components = DefaultNComponents
    /\ hsi_image_reshaped = None
    /\ hsi_image_scaled = None
    /\ hsi_image_limited = None
    /\ mtt_hsi_image_reshaped = None
    /\ train_idx = <<>>
    /\ test_idx = <<>>
    /\ X_train = None
    /\ X_test = None
    /\ y_train = None
    /\ y_test = None
    /\ cbc = NoModel
    /\ y_pred = None
    /\ acc = NoAcc
    /\ total_time = "unset"
    /\ y_pred_full = None
    /\ classification_map = None
    /\ ground_truth_map = None
    /\ ret = <<>>
    /\ err = NoError
    /\ clf_calls = <<>>
    /\ log = <<>>

Pipeline ==
    \/ ICA_Standardize
    \/ ICA_Reduce
    \/ MTT_Split
    \/ MTT_Fit
    \/ MTT_Test
    \/ MTT_Full

Next ==
    \/ LoadCube
    \/ LoadGt
    \/ CallICA
    \/ Pipeline
    \/ Visualize
    \/ PrintSummary

Spec ==
    Init /\ [][Next]_vars

\* One direct call ICA(hsi_image, gt, n_components) on a cube of any of the
\* shapes with up to MaxBands bands and MaxCells cells, a label grid of
\* InputGrids over it, and a component count one below, equal to or one
\* above the band count.
InitICA ==
    /\ pc = "ica_scale"
    /\ ds = 0
    /\ loaded = [k \in Datasets |-> NotLoaded]
    /\ results = [k \in Datasets |-> <<>>]
    /\ images = {}
    /\ summary = <<>>
    /\ \E s \in Shapes : \E b \in 1..MaxBands :
          /\ s[1] * s[2] * b <= MaxCells
          /\ hsi_image = Cube(s[1], s[2], b)
          /\ gt \in InputGrids(s[1], s[2])
          /\ n_components \in {b - 1, b, b + 1} \ {0}
    /\ hsi_image_reshaped = None
    /\ hsi_image_scaled = None
    /\ hsi_image_limited = None
    /\ mtt_hsi_image_reshaped = None
    /\ train_idx = <<>>
    /\ test_idx = <<>>
    /\ X_train = None
    /\ X_test = None
    /\ y_train = None
    /\ y_test = None
    /\ cbc = NoModel
    /\ y_pred = None
    /\ acc = NoAcc
    /\ total_time = "unset"
    /\ y_pred_full = None
    /\ classification_map = None
    /\ ground_truth_map = None
    /\ ret = <<>>
    /\ err = NoError
    /\ clf_calls = <<>>
    /\ log = <<>>

SpecICA ==
    InitICA /\ [][Pipeline]_vars

----------------------------------------------------------------------------
(* Reading the log *)

\* positions of the events of dataset k with operation op
Idx(k, op) ==
    {i \in 1..Len(log) : log[i] = Event(k, op)}

Did(k, op) ==
    Idx(k, op) # {}

Ops(S) ==
    {i \in 1..Len(log) : log[i].op \in S}

LoadOps ==
    {"load_cube", "load_gt"}

FitOps ==
    {"standardize", "reduce", "split", "construct", "fit"}

StepOps ==
    {"standardize", "validate", "reduce", "split", "construct", "fit",
     "predict_test", "accuracy", "predict_full", "reshape_pred", "reshape_gt",
     "report", "confusion", "return", "render"}

\* the operations of ICA and model_train_test performed for dataset k, in order
RECURSIVE PipeOpsFrom(_, _)
PipeOpsFrom(k, i) ==
    IF i > Len(log) THEN <<>>
    ELSE IF log[i].ds = k /\ log[i].op \in (StepOps \cup {"reshape_cube"}) \ {"render"}
         THEN <<log[i].op>> \o PipeOpsFrom(k, i + 1)
         ELSE PipeOpsFrom(k, i + 1)

PipeOps(k) ==
    PipeOpsFrom(k, 1)

IsPrefix(s, t) ==
    /\ Len(s) <= Len(t)
    /\ \A i \in 1..Len(s) : s[i] = t[i]

H == hsi_image.shape[1]
W == hsi_image.shape[2]
B == hsi_image.shape[3]

----------------------------------------------------------------------------
(* Claims *)

\* C1: whenever ICA ends in the component-count validation error, no fit has
\* been invoked before it (not the standardizer's, not the ICA's, no split,
\* no classifier fit), and a call with n_components > n_bands never gets
\* past the validation.
C1_FailFast ==
    /\ err.at = "validate" => \A i \in 1..Len(log) : log[i].op \notin FitOps
    /\ n_components > B => pc \in {"ica_scale", "ica_reduce", "aborted"}

\* C2: every table handed to the classifier (fit, its eval_set, the test
\* prediction, the full prediction) is made of rows of the ICA-reduced table
\* and has n_components columns; the raw band table is never handed to it.
C2_OnlyReducedTables ==
    \A i \in 1..Len(clf_calls) :
        LET X == clf_calls[i].X
        IN /\ X.kind = "ica"
           /\ X.shape[2] = n_components
           /\ \A r \in 0..(X.shape[1] - 1) :
                 \E q \in 0..(H * W - 1) : RowOf(X, r) = RowOf(hsi_image_limited, q)

\* C3: once any step has raised, the run is halted for good: the control is
\* in the aborted state and no action is enabled, no step of a later dataset
\* was executed, no step was executed twice, and no image exists for the
\* failing dataset or a later one.
C3_FailureHaltsRun ==
    err.type # "none" =>
        /\ pc = "aborted"
        /\ ~ENABLED Next
        /\ \A i \in Ops(StepOps) : log[i].ds <= ds
        /\ \A k \in Datasets : \A op \in StepOps : Cardinality(Idx(k, op)) <= 1
        /\ \A k \in Datasets : k >= ds => Names[k] \notin images

C3_Witness ==
    /\ err.at = "fit"
    /\ ds = 2
    /\ images = {Names[1]}

\* The order the code performs the operations of one invocation in.
PipelineOrder ==
    <<"reshape_cube", "standardize", "validate", "reduce", "reshape_cube", "split",
      "construct", "fit", "predict_test", "accuracy", "predict_full",
      "reshape_pred", "reshape_gt", "report", "confusion", "return">>

\* C4 as stated: in a completed invocation each of reshape, standardize,
\* reduce, split, fit, full prediction and map reshape happens exactly once,
\* in that order, and no scoring against labels (test accuracy, report,
\* confusion matrix) comes before the full prediction and its reshape.
C4_ClaimedOrder ==
    \A k \in Datasets : Did(k, "return") =>
        LET chain == <<"reshape_cube", "standardize", "reduce", "split", "fit",
                       "predict_full", "reshape_pred">>
        IN /\ \A j \in 1..Len(chain) : Cardinality(Idx(k, chain[j])) = 1
           /\ \A j \in 1..(Len(chain) - 1) :
                 \A p \in Idx(k, chain[j]) : \A q \in Idx(k, chain[j + 1]) : p < q
           /\ \A sc \in {"accuracy", "report", "confusion"} :
                 \A p \in Idx(k, sc) :
                     \A q \in Idx(k, "predict_full") \cup Idx(k, "reshape_pred") : q < p

\* C4, amended: the operations of an invocation are performed in the order
\* reshape, standardize, validate, reduce, reshape again, split, construct,
\* fit, test prediction, test accuracy, full prediction, map reshape, label
\* reshape, report, confusion matrix, return; an invocation that has
\* returned performed all of them, each once but the reshape of the cube,
\* which is done twice; the rendering comes after the return.
C4_ActualOrder ==
    \A k \in Datasets :
        /\ IsPrefix(PipeOps(k), PipelineOrder)
        /\ Did(k, "return") => PipeOps(k) = PipelineOrder
        /\ \A p \in Idx(k, "render") : \E q \in Idx(k, "return") : q < p

C4_Witness ==
    /\ Did(1, "render")
    /\ PipeOps(1) = PipelineOrder

\* C5: when some class of the label grid has fewer than two samples, the
\* split ends in an error that names an undersized class, and nothing was
\* constructed, fitted, predicted or returned.
C5_SplitErrorNamesClass ==
    (Did(ds, "split") /\ Undersized(Ravel(gt)) # {}) =>
        /\ err.at = "split"
        /\ err.classes # {}
        /\ err.classes \subseteq Undersized(Ravel(gt))
        /\ \A i \in 1..Len(log) :
              log[i].op \notin {"construct", "fit", "predict_test", "predict_full"}
        /\ ret = <<>>

\* A label vector the stratified split accepts: every class has two samples
\* or more and neither partition is smaller than the number of classes.
Stratifiable(y) ==
    /\ \A c \in Unique(y) : Cardinality({k \in 1..Len(y.data) : y.data[k] = c}) >= 2
    /\ Cardinality(Unique(y)) <= NTest(Len(y.data))
    /\ Cardinality(Unique(y)) <= NTrain(Len(y.data))

\* C6: on a cube with n_components <= B and a label grid that can be
\* stratified, neither the validation nor the split raises, so only a
\* failing library call can keep the call from returning; what it returns
\* is an accuracy num/den with den the size of the test partition, num the
\* number of correct test predictions and 0 <= num <= den, and a map of
\* shape (H, W) whose values are labels of the grid.
C6_ValidRunResult ==
    /\ (n_components <= B /\ Stratifiable(Ravel(gt))) =>
          /\ err.at \notin {"validate", "split"}
          /\ pc = "aborted" => err.type = "LibraryError"
    /\ pc = "returned" =>
          /\ ret[1].den = Len(test_idx)
          /\ ret[1].den > 0
          /\ ret[1].num = Cardinality({k \in 1..Len(y_test.data) :
                                          y_test.data[k] = y_pred.data[k]})
          /\ 0 <= ret[1].num /\ ret[1].num <= ret[1].den
          /\ ret[3].shape = <<H, W>>
          /\ Len(ret[3].data) = H * W
          /\ Unique(ret[3]) \subseteq Unique(gt)

C6_Witness ==
    /\ pc = "returned"
    /\ hsi_image.shape = <<2, 3, 2>>
    /\ n_components = 1
    /\ gt.data = <<0, 1, 0, 1, 0, 1>>
    /\ Unique(ret[3]) = {0, 1}
    /\ ret[1] = [num |-> 1, den |-> 2]

\* C7, the state part: the returned ground-truth map is the label grid cell
\* for cell; the prediction for row i sits at cell (i div W, i mod W) of the
\* classification map; row i of the flattened table is the spectrum of the
\* pixel at that cell and element i of the flattened labels is its label.
C7_Cells ==
    /\ mtt_hsi_image_reshaped.kind = "cube" =>
          /\ mtt_hsi_image_reshaped.shape = <<H * W, B>>
          /\ hsi_image_reshaped.shape = <<H * W, B>>
          /\ \A i \in 0..(H * W - 1) :
                /\ At1(Ravel(gt), i) = At2(gt, i \div W, i % W)
                /\ \A b \in 0..(B - 1) :
                      /\ At2(mtt_hsi_image_reshaped, i, b)
                            = At3(hsi_image, i \div W, i % W, b)
                      /\ At2(hsi_image_reshaped, i, b)
                            = At3(hsi_image, i \div W, i % W, b)
    /\ pc = "returned" =>
          /\ ret[4].shape = gt.shape
          /\ ret[3].shape = gt.shape
          /\ ret[4].data = gt.data
          /\ \A i \in 0..(H * W - 1) :
                At2(ret[3], i \div W, i % W) = y_pred_full.data[i + 1]
          /\ hsi_image = Cube(H, W, B)

\* C7: flattening and reshaping keep the shape and the element order
\* (C7_Cells in every state), and no step changes the cube or the label grid.
C7_ReshapeRoundTrip ==
    [](C7_Cells) /\ [][hsi_image' = hsi_image /\ gt' = gt]_vars

C7_Witness ==
    /\ pc = "returned"
    /\ hsi_image.shape = <<2, 3, 2>>
    /\ ret[3].data = <<0, 0, 1, 0, 1, 1>>
    /\ gt.data = <<0, 0, 1, 1, 1, 1>>

\* C8: the train and test partitions are disjoint, hold no pixel twice and
\* cover every pixel; X_train, y_train, X_test, y_test are the rows of the
\* reduced table and the labels at those pixels, in the order the split
\* returned them; the one fit is on the train partition with the
\* test partition as eval_set; the accuracy is computed from y_test and the
\* prediction made on X_test, and is the accuracy returned.
C8_PartitionAndUse ==
    /\ X_train.kind = "ica" =>
          LET y == Ravel(gt)
              n == H * W
          IN /\ Range(train_idx) \cap Range(test_idx) = {}
             /\ Range(train_idx) \cup Range(test_idx) = 0..(n - 1)
             /\ Len(train_idx) + Len(test_idx) = n
             /\ Len(test_idx) = NTest(n)
             /\ Cardinality({RowOf(hsi_image_limited, q) : q \in 0..(n - 1)}) = n
             /\ X_train = TakeRows(hsi_image_limited, train_idx)
             /\ X_test = TakeRows(hsi_image_limited, test_idx)
             /\ y_train = TakeElems(y, train_idx)
             /\ y_test = TakeElems(y, test_idx)
    /\ \A i \in 1..Len(clf_calls) :
          /\ clf_calls[i].op = "fit" <=> i = 1
          /\ clf_calls[i].op = "fit" =>
                /\ clf_calls[i].X = X_train
                /\ clf_calls[i].y = y_train
                /\ clf_calls[i].eval_X = X_test
                /\ clf_calls[i].eval_y = y_test
    /\ acc.den > 0 =>
          /\ clf_calls[2].op = "predict"
          /\ clf_calls[2].X.kind = "ica"
          /\ clf_calls[2].X = X_test
          /\ y_pred.shape = <<Len(test_idx), 1>>
          /\ acc.den = Len(test_idx)
          /\ acc.num = Cardinality({k \in 1..Len(y_test.data) :
                                       y_test.data[k] = y_pred.data[k]})
    /\ pc = "returned" => ret[1] = acc /\ acc.den > 0

C8_Witness ==
    /\ pc = "returned"
    /\ train_idx = <<3, 0, 2, 1>>
    /\ test_idx = <<5, 4>>
    /\ gt.data = <<0, 1, 0, 1, 0, 1>>
    /\ y_train.data = <<1, 0, 0, 1>>
    /\ acc = [num |-> 1, den |-> 2]

\* C9 as stated: no operation on a dataset, its load included, comes after
\* an operation on a later dataset.
C9_ClaimedSequential ==
    \A p \in 1..Len(log) : \A q \in 1..Len(log) :
        (p < q /\ log[p].op # "print_summary" /\ log[q].op # "print_summary")
            => log[p].ds <= log[q].ds

\* C9, amended: the four datasets are loaded first, in the order of Names,
\* the cube of each before its label grid; every step of ICA,
\* model_train_test and the rendering comes after the four loads; among
\* those steps none on a dataset comes after a step on a later dataset, and
\* a dataset's first step comes only after the image of every earlier
\* dataset has been written.
C9_LoadsThenSequential ==
    /\ \A p \in Ops(LoadOps) : \A q \in Ops(LoadOps) :
          p < q => \/ log[p].ds < log[q].ds
                   \/ log[p] = Event(log[q].ds, "load_cube") /\ log[q].op = "load_gt"
    /\ \A q \in Ops(StepOps \cup {"reshape_cube"}) :
          /\ \A k \in Datasets : \A op \in LoadOps : \E p \in Idx(k, op) : p < q
          /\ \A p \in Ops(StepOps \cup {"reshape_cube"}) : p < q => log[p].ds <= log[q].ds
          /\ \A k \in Datasets : k < log[q].ds =>
                /\ Names[k] \in images
                /\ \E p \in Idx(k, "render") : p < q

C9_Witness ==
    /\ Did(2, "standardize")
    /\ Did(1, "render")

\* C10: a summary line is printed only when all four datasets are loaded,
\* trained and rendered and nothing has failed; the lines come in the order
\* of Names, each with its dataset's training time and accuracy; after a
\* failure no line has been printed.
C10_SummaryOnlyAfterAll ==
    /\ summary # <<>> =>
          /\ err.type = "none"
          /\ \A k \in Datasets :
                /\ loaded[k].cube.kind = "cube"
                /\ loaded[k].gt.kind = "labels"
                /\ Len(results[k]) = 4
                /\ Names[k] \in images
                /\ Did(k, "return") /\ Did(k, "render")
          /\ \A i \in 1..Len(summary) :
                /\ summary[i].name = Names[i]
                /\ summary[i].accuracy = results[i][1]
                /\ summary[i].training_time = results[i][2]
    /\ err.type # "none" => summary = <<>>
    /\ Len(summary) <= Len(Names)

C10_Witness ==
    /\ pc = "done"
    /\ Len(summary) = Len(Names)

====
